---- MODULE Spec2Model ----
(***************************************************************************)
(* io::IndentWriter of indent-write (src/src/io.rs): an adapter that       *)
(* inserts `indent_level` copies of `indent` before every non-empty line   *)
(* it forwards to the wrapped io::Write.                                   *)
(*                                                                         *)
(* A writer is a record tagged by `kind`:                                  *)
(*   "Vec"     a Vec<u8>: accepts every byte offered (tests/io.rs)         *)
(*   "Any"     any io::Write: may accept a prefix, nothing, or fail,       *)
(*             which it does at most MaxFaults times in a run              *)
(*   "OneByte" the tests' OneByteAtATime wrapper                           *)
(*   "Indent"  an IndentWriter around another writer                       *)
(* One call of write/flush is one action; the sink calls it makes are      *)
(* resolved inside the action, every answer the sink may give being one    *)
(* outcome of the call.                                                    *)
(***************************************************************************)
EXTENDS Integers, Sequences, FiniteSets, TLC

VARIABLES
    w,                \* the IndentWriter the caller holds (outermost adapter)
    overflow_checks,  \* build profile: are integer overflow checks compiled in
    panicked,         \* a call has panicked: the thread is unwinding
    last,             \* the last call: operation, argument, result, sink calls
    pending,          \* the part of the last write's buffer not yet consumed
    compliant,        \* the caller has so far re-submitted every unconsumed
                      \* suffix and changed the level only between buffers
    input,            \* bytes of the caller consumed by w since it was built
    expectL,          \* the output the level asks for (indent * indent_level)
    expectM,          \* the output the buffers ask for (required_indent)
    lineStartAtNew,   \* the wrapped writer was at a line start when w was built
    cleanReset,       \* reset() has been called and inc() not since
    twin              \* the same adapter around OneByteAtATime, given the
                      \* same calls as w (SpecTwin)

vars == <<w, overflow_checks, panicked, last, pending, compliant, input,
          expectL, expectM, lineStartAtNew, cleanReset, twin>>

----------------------------------------------------------------------------
(* Bytes.  The adapter only ever compares a byte with b'\n'.               *)

NL == 10
TAB == 9
SP == 32
LetterA == 97

\* u16::MAX, the width of indent_level
U16Max == 65535
\* stands for usize::MAX: only "larger than any buffer" is used of it
UsizeMax == 2147483647

\* bounds of the exploration
MaxLevel == 2
MaxInput == 3
MaxBuf == 2
MaxDepth == 2
MaxOut == 5
MaxFaults == 2
MaxPrefix == 1

CallerBytes == {NL, LetterA}
IndentBytes == {TAB, SP}
Units == {<<>>, <<TAB>>, <<TAB, SP>>, <<NL>>}

SeqsUpTo(S, n) == UNION {[1..k -> S] : k \in 0..n}
Bufs == SeqsUpTo(CallerBytes, MaxBuf)

Repeat(unit, n) ==
    [i \in 1..(n * Len(unit)) |-> unit[((i - 1) % Len(unit)) + 1]]

\* Rust's s[a..b]
Slice(s, a, b) == SubSeq(s, a + 1, b)

MinOf(S) == CHOOSE i \in S : \A j \in S : i <= j

\* buf.iter().position(|&b| b == b'\n'); -1 for None
PositionNewline(buf) ==
    LET hits == {i \in 1..Len(buf) : buf[i] = NL}
    IN IF hits = {} THEN -1 ELSE MinOf(hits) - 1

\* buf.iter().position(|&b| b != b'\n'); -1 for None
PositionNonNewline(buf) ==
    LET hits == {i \in 1..Len(buf) : buf[i] # NL}
    IN IF hits = {} THEN -1 ELSE MinOf(hits) - 1

----------------------------------------------------------------------------
(* Results of a call.                                                      *)

Ok(n) == [t |-> "Ok", n |-> n]
Err == [t |-> "Err", n |-> 0]
WriteZero == [t |-> "WriteZero", n |-> 0]
Panic == [t |-> "Panic", n |-> 0]

IsOk(r) == r.t = "Ok"

----------------------------------------------------------------------------
(* enum IndentState                                                        *)

MidLine == [tag |-> "MidLine"]
NeedIndent == [tag |-> "NeedIndent"]
WritingIndent(s, e) == [tag |-> "WritingIndent", start |-> s, end |-> e]

----------------------------------------------------------------------------
(* The writers the adapter is built around.                                *)

VecNew == [kind |-> "Vec", data |-> <<>>]
AnyNew == [kind |-> "Any", data |-> <<>>, faults |-> 0]
OneByteAtATime(inner) == [kind |-> "OneByte", inner |-> inner]

\* mutant: a new adapter starts in the middle of a line
NewMidLine(indent, writer) ==
    [kind |-> "Indent", writer |-> writer, indent |-> indent,
     indent_level |-> 0, required_indent |-> <<>>, state |-> MidLine]

New(indent, writer) ==
    [kind |-> "Indent", writer |-> writer, indent |-> indent,
     indent_level |-> 0, required_indent |-> <<>>, state |-> NeedIndent]

SaturatingAdd(a, b) == IF a + b > U16Max THEN U16Max ELSE a + b
SaturatingSub(a, b) == IF a < b THEN 0 ELSE a - b

\* mutant: at the highest level inc() leaves required_indent alone
incSaturated(self) ==
    IF self.indent_level = U16Max THEN self
    ELSE [self EXCEPT !.indent_level = @ + 1,
                      !.required_indent = @ \o self.indent]

inc(self) ==
    [self EXCEPT !.indent_level = SaturatingAdd(@, 1),
                 !.required_indent = @ \o self.indent]

\* Vec::truncate: no effect when new_len is greater than the length
Truncate(v, new_len) == IF new_len > Len(v) THEN v ELSE SubSeq(v, 1, new_len)

\* usize subtraction without overflow checks
WrappingSub(a, b) == IF a >= b THEN a - b ELSE UsizeMax - (b - a) + 1

\* `a - b` on usize panics when overflow checks are compiled in
SubOverflows(a, b) == a < b

\* dec: the adapter after the call, and whether the call panicked
dec(self, checks) ==
    LET lowered == [self EXCEPT !.indent_level = SaturatingSub(@, 1)]
        len == Len(self.required_indent)
        ulen == Len(self.indent)
    IN IF SubOverflows(len, ulen) /\ checks
       THEN [self |-> lowered, res |-> Panic]
       ELSE [self |-> [lowered EXCEPT !.required_indent =
                           Truncate(@, WrappingSub(len, ulen))],
             res |-> Ok(0)]

\* mutant: reset() also drops a pending indent
resetState(self) ==
    [self EXCEPT !.indent_level = 0, !.required_indent = <<>>,
                 !.state = NeedIndent]

reset(self) ==
    [self EXCEPT !.indent_level = 0, !.required_indent = <<>>]

----------------------------------------------------------------------------
(* io::Write::write for each kind of writer: the set of outcomes           *)
(* [w |-> the writer afterwards, res |-> the result].                      *)

RECURSIVE WriterWrite(_, _)
RECURSIVE WriteLoop(_, _, _)
RECURSIVE WriterFlush(_)
RECURSIVE FlushLoop(_, _)

\* one call on the wrapped writer: what was offered (bytes of the caller's
\* buffer or of required_indent) and what the writer answered
SinkCall(op, src, arg, res) == [op |-> op, src |-> src, arg |-> arg, ret |-> res]

\* &self.required_indent[range] is in bounds
SliceInBounds(self) ==
    /\ self.state.start <= self.state.end
    /\ self.state.end <= Len(self.required_indent)

\* the condition under which MidLine's Some(len) arm asks for an indent
LineWritten(n, len) == n >= len

\* the condition under which NeedIndent's Some(len) arm starts the indent
BlankLinesWritten(n, len) == n >= len

\* mutant: a sink that accepts nothing counts as having taken the indent
IndentWrittenOrZero(n, rangeLen) == n >= rangeLen \/ n = 0

\* mutant: any progress counts as the whole indent
IndentWrittenAny(n, rangeLen) == n >= rangeLen \/ n > 0

\* the condition under which the WritingIndent arm is done with the indent
IndentWritten(n, rangeLen) == n >= rangeLen

\* the range a fresh WritingIndent covers
FullRange(self) == WritingIndent(0, Len(self.required_indent))

\* `break self.writer.write(slice)`, the state changed by `after` on Ok(n)
ForwardAndBreak(self, slice, calls, after(_, _)) ==
    { [self |-> IF IsOk(o.res)
                THEN after([self EXCEPT !.writer = o.w], o.res.n)
                ELSE [self EXCEPT !.writer = o.w],
       res |-> o.res,
       calls |-> Append(calls, SinkCall("write", "buf", slice, o.res))]
      : o \in WriterWrite(self.writer, slice) }

Unchanged(self, n) == self

\* &buf[..k]
BufPrefix(buf, k) == Slice(buf, 0, k)

WriteMidLine(self, buf, calls) ==
    LET pos == PositionNewline(buf)
        After(s, n) == IF LineWritten(n, pos)
                       THEN [s EXCEPT !.state = NeedIndent] ELSE s
    IN CASE pos = -1 -> ForwardAndBreak(self, buf, calls, Unchanged)
         [] pos = 0 -> WriteLoop([self EXCEPT !.state = NeedIndent], buf, calls)
         [] OTHER -> ForwardAndBreak(self, BufPrefix(buf, pos + 1), calls, After)

WriteNeedIndent(self, buf, calls) ==
    LET pos == PositionNonNewline(buf)
        After(s, n) == IF BlankLinesWritten(n, pos)
                       THEN [s EXCEPT !.state = FullRange(s)] ELSE s
    IN CASE pos = -1 -> ForwardAndBreak(self, buf, calls, Unchanged)
         [] pos = 0 -> WriteLoop([self EXCEPT !.state = FullRange(self)], buf, calls)
         [] OTHER -> ForwardAndBreak(self, BufPrefix(buf, pos), calls, After)

\* mutant: a stalled indent starts again from its first byte
StalledRestart(self) == [self EXCEPT !.state = FullRange(self)]

\* `?` on a failed sink write, and `0 => break Ok(0)`: the call ends and the
\* range stays where it is
Stalled(self) == self

\* mutant: a partial write of the indent leaves the range where it was
AdvanceNone(self, n) == self

\* `n => range.start += n`
Advance(self, n) == [self EXCEPT !.state.start = @ + n]

\* mutant: a partial write of the indent ends the call with its count
IndentPartlyWrittenCounted(self, n, buf, calls) ==
    {[self |-> Advance(self, n), res |-> Ok(n), calls |-> calls]}

\* a partial write of the indent: go round the loop again
IndentPartlyWritten(self, n, buf, calls) == WriteLoop(Advance(self, n), buf, calls)

WriteWritingIndent(self, buf, calls) ==
    IF ~SliceInBounds(self)
    THEN {[self |-> self, res |-> Panic, calls |-> calls]}
    ELSE LET range == self.state
             slice == Slice(self.required_indent, range.start, range.end)
         IN UNION {
              LET s1 == [self EXCEPT !.writer = o.w]
                  log == Append(calls, SinkCall("write", "indent", slice, o.res))
              IN CASE ~IsOk(o.res) ->
                        {[self |-> Stalled(s1), res |-> o.res, calls |-> log]}
                   [] IsOk(o.res) /\ IndentWritten(o.res.n, range.end - range.start) ->
                        WriteLoop([s1 EXCEPT !.state = MidLine], buf, log)
                   [] IsOk(o.res) /\ ~IndentWritten(o.res.n, range.end - range.start)
                        /\ o.res.n = 0 ->
                        {[self |-> Stalled(s1), res |-> Ok(0), calls |-> log]}
                   [] OTHER ->
                        IndentPartlyWritten(s1, o.res.n, buf, log)
              : o \in WriterWrite(self.writer, slice) }

WriteLoop(self, buf, calls) ==
    CASE self.state.tag = "MidLine" -> WriteMidLine(self, buf, calls)
      [] self.state.tag = "NeedIndent" -> WriteNeedIndent(self, buf, calls)
      [] OTHER -> WriteWritingIndent(self, buf, calls)

WriterWrite(wr, buf) ==
    CASE wr.kind = "Vec" ->
           {[w |-> [wr EXCEPT !.data = @ \o buf], res |-> Ok(Len(buf))]}
      [] wr.kind = "Any" ->
           {[w |-> [wr EXCEPT !.data = @ \o buf], res |-> Ok(Len(buf))]}
           \cup (IF wr.faults < MaxFaults
                 THEN {[w |-> [wr EXCEPT !.data = @ \o SubSeq(buf, 1, n),
                                         !.faults = @ + 1],
                        res |-> Ok(n)] : n \in 0..(Len(buf) - 1)}
                      \cup {[w |-> [wr EXCEPT !.faults = @ + 1], res |-> Err]}
                 ELSE {})
      [] wr.kind = "OneByte" ->
           IF buf = <<>>
           THEN {[w |-> wr, res |-> Ok(0)]}
           ELSE {[w |-> [wr EXCEPT !.inner = o.w], res |-> o.res]
                   : o \in WriterWrite(wr.inner, <<buf[1]>>)}
      [] OTHER ->
           {[w |-> o.self, res |-> o.res] : o \in WriteLoop(wr, buf, <<>>)}

\* IndentWriter::flush
FlushLoop(self, calls) ==
    IF self.state.tag = "WritingIndent"
    THEN IF ~SliceInBounds(self)
         THEN {[self |-> self, res |-> Panic, calls |-> calls]}
         ELSE LET range == self.state
                  slice == Slice(self.required_indent, range.start, range.end)
              IN UNION {
                   LET s1 == [self EXCEPT !.writer = o.w]
                       log == Append(calls, SinkCall("write", "indent", slice, o.res))
                   IN CASE ~IsOk(o.res) ->
                             {[self |-> Stalled(s1), res |-> o.res, calls |-> log]}
                        [] IsOk(o.res) /\ IndentWritten(o.res.n, range.end - range.start) ->
                             FlushLoop([s1 EXCEPT !.state = MidLine], log)
                        [] IsOk(o.res) /\ ~IndentWritten(o.res.n, range.end - range.start)
                             /\ o.res.n = 0 ->
                             {[self |-> Stalled(s1), res |-> WriteZero, calls |-> log]}
                        [] OTHER ->
                             FlushLoop(Advance(s1, o.res.n), log)
                   : o \in WriterWrite(self.writer, slice) }
    ELSE { [self |-> [self EXCEPT !.writer = o.w], res |-> o.res,
            calls |-> Append(calls, SinkCall("flush", "none", <<>>, o.res))]
           : o \in WriterFlush(self.writer) }

WriterFlush(wr) ==
    CASE wr.kind = "Vec" -> {[w |-> wr, res |-> Ok(0)]}
      [] wr.kind = "Any" ->
           {[w |-> wr, res |-> Ok(0)]}
           \cup (IF wr.faults < MaxFaults
                 THEN {[w |-> [wr EXCEPT !.faults = @ + 1], res |-> Err]}
                 ELSE {})
      [] wr.kind = "OneByte" ->
           {[w |-> [wr EXCEPT !.inner = o.w], res |-> o.res]
              : o \in WriterFlush(wr.inner)}
      [] OTHER ->
           {[w |-> o.self, res |-> o.res] : o \in FlushLoop(wr, <<>>)}

----------------------------------------------------------------------------
(* Observation: what reached the sink, and what the calls so far ask for.  *)

RECURSIVE Data(_)
\* the bytes that reached the innermost sink
Data(wr) ==
    CASE wr.kind \in {"Vec", "Any"} -> wr.data
      [] wr.kind = "OneByte" -> Data(wr.inner)
      [] OTHER -> Data(wr.writer)

RECURSIVE Base(_)
\* the kinds of the writers under wr, outermost first
Base(wr) ==
    CASE wr.kind \in {"Vec", "Any"} -> <<wr.kind>>
      [] wr.kind = "OneByte" -> <<wr.kind>> \o Base(wr.inner)
      [] OTHER -> <<wr.kind>> \o Base(wr.writer)

RECURSIVE Depth(_)
\* how many IndentWriters are stacked
Depth(wr) ==
    CASE wr.kind \in {"Vec", "Any"} -> 0
      [] wr.kind = "OneByte" -> Depth(wr.inner)
      [] OTHER -> 1 + Depth(wr.writer)

RECURSIVE PrefixByLevel(_)
\* indent * indent_level of every adapter, first-constructed first
PrefixByLevel(wr) ==
    CASE wr.kind \in {"Vec", "Any"} -> <<>>
      [] wr.kind = "OneByte" -> PrefixByLevel(wr.inner)
      [] OTHER -> PrefixByLevel(wr.writer) \o Repeat(wr.indent, wr.indent_level)

RECURSIVE PrefixByBuffer(_)
\* required_indent of every adapter, first-constructed first
PrefixByBuffer(wr) ==
    CASE wr.kind \in {"Vec", "Any"} -> <<>>
      [] wr.kind = "OneByte" -> PrefixByBuffer(wr.inner)
      [] OTHER -> PrefixByBuffer(wr.writer) \o wr.required_indent

AtLineStart(bytes) == bytes = <<>> \/ bytes[Len(bytes)] = NL

RECURSIVE Indented(_, _, _)
\* bytes with prefix put before the first byte of every non-empty line
Indented(atStart, bytes, prefix) ==
    IF bytes = <<>> THEN <<>>
    ELSE (IF atStart /\ Head(bytes) # NL THEN prefix ELSE <<>>)
         \o <<Head(bytes)>>
         \o Indented(Head(bytes) = NL, Tail(bytes), prefix)

Consumed(buf, res) == IF IsOk(res) THEN SubSeq(buf, 1, res.n) ELSE <<>>
Unconsumed(buf, res) ==
    IF IsOk(res) THEN SubSeq(buf, res.n + 1, Len(buf)) ELSE buf

\* the fields of an adapter a call may change, as they were before the call
Fields(self) ==
    [state |-> self.state, indent_level |-> self.indent_level,
     required_indent |-> self.required_indent]

Call(op, buf, res, calls, pre) ==
    [op |-> op, buf |-> buf, res |-> res, calls |-> calls, pre |-> pre]

----------------------------------------------------------------------------
(* The initial state: IndentWriter::new(indent, writer).                   *)

Sinks == {VecNew, AnyNew, OneByteAtATime(VecNew)}

Init ==
    /\ \E u \in Units, s \in Sinks : w = New(u, s)
    /\ overflow_checks \in BOOLEAN
    /\ panicked = FALSE
    /\ last = Call("new", <<>>, Ok(0), <<>>, Fields(w))
    /\ pending = <<>>
    /\ compliant = TRUE
    /\ input = <<>>
    /\ expectL = <<>>
    /\ expectM = <<>>
    /\ lineStartAtNew = TRUE
    /\ cleanReset = FALSE
    /\ twin = New(w.indent, OneByteAtATime(VecNew))

----------------------------------------------------------------------------
(* The calls.                                                              *)

\* the levels explored: the lowest ones and the ones next to u16::MAX
LevelInRange(level) == level < MaxLevel \/ level >= U16Max - 1

Inc ==
    /\ ~panicked
    /\ LevelInRange(w.indent_level)
    /\ Len(w.required_indent) <= U16Max * Len(w.indent)
    /\ w' = inc(w)
    /\ last' = Call("inc", <<>>, Ok(0), <<>>, Fields(w))
    /\ compliant' = (compliant /\ pending = <<>>)
    /\ cleanReset' = FALSE
    /\ UNCHANGED <<twin, overflow_checks, panicked, pending, input, expectL, expectM,
                   lineStartAtNew>>

Dec ==
    /\ ~panicked
    /\ LevelInRange(w.indent_level - 1)
    /\ LET o == dec(w, overflow_checks)
       IN /\ w' = o.self
          /\ panicked' = (o.res = Panic)
          /\ last' = Call("dec", <<>>, o.res, <<>>, Fields(w))
    /\ compliant' = (compliant /\ pending = <<>>)
    /\ UNCHANGED <<twin, overflow_checks, pending, input, expectL, expectM,
                   lineStartAtNew, cleanReset>>

Reset ==
    /\ ~panicked
    /\ w' = reset(w)
    /\ last' = Call("reset", <<>>, Ok(0), <<>>, Fields(w))
    /\ compliant' = (compliant /\ pending = <<>>)
    /\ cleanReset' = TRUE
    /\ UNCHANGED <<twin, overflow_checks, panicked, pending, input, expectL, expectM,
                   lineStartAtNew>>

Write(buf) ==
    /\ ~panicked
    /\ Len(input) + Len(buf) <= MaxInput
    /\ Len(Data(w)) < MaxOut
    /\ \E o \in WriteLoop(w, buf, <<>>) :
         /\ w' = o.self
         /\ panicked' = (o.res = Panic)
         /\ last' = Call("write", buf, o.res, o.calls, Fields(w))
         /\ pending' = Unconsumed(buf, o.res)
         /\ input' = input \o Consumed(buf, o.res)
         /\ expectL' = expectL \o Indented(AtLineStart(input),
                                           Consumed(buf, o.res), PrefixByLevel(w))
         /\ expectM' = expectM \o Indented(AtLineStart(input),
                                           Consumed(buf, o.res), PrefixByBuffer(w))
    /\ compliant' = (compliant /\ (pending = <<>> \/ buf = pending))
    /\ UNCHANGED <<twin, overflow_checks, lineStartAtNew, cleanReset>>

Flush ==
    /\ ~panicked
    /\ \E o \in FlushLoop(w, <<>>) :
         /\ w' = o.self
         /\ panicked' = (o.res = Panic)
         /\ last' = Call("flush", <<>>, o.res, o.calls, Fields(w))
    /\ UNCHANGED <<twin, overflow_checks, pending, compliant, input, expectL, expectM,
                   lineStartAtNew, cleanReset>>

\* IndentWriter::new(u, &mut w): a second adapter around the first
Wrap(u) ==
    /\ ~panicked
    /\ Depth(w) < MaxDepth
    /\ Len(input) <= MaxPrefix
    /\ w' = New(u, w)
    /\ last' = Call("new", <<>>, Ok(0), <<>>, Fields(w'))
    /\ compliant' = (compliant /\ pending = <<>>)
    /\ input' = <<>>
    /\ lineStartAtNew' = (w.state.tag = "NeedIndent")
    /\ cleanReset' = FALSE
    /\ UNCHANGED <<twin, overflow_checks, panicked, pending, expectL, expectM>>

Next ==
    \/ Inc
    \/ Dec
    \/ Reset
    \/ \E buf \in Bufs : Write(buf)
    \/ Flush

Spec == Init /\ [][Next]_vars

----------------------------------------------------------------------------
(* Two adapters stacked on a Vec<u8>.                                      *)

InitNested ==
    /\ Init
    /\ Base(w) = <<"Indent", "Vec">>

\* the caller re-submits what a write left unconsumed before anything else
NextNested ==
    \/ Inc /\ compliant'
    \/ Dec /\ compliant'
    \/ Reset /\ compliant'
    \/ \E buf \in Bufs : Write(buf) /\ compliant'
    \/ Flush
    \/ \E u \in Units : Wrap(u) /\ compliant'

SpecNested == InitNested /\ [][NextNested]_vars

----------------------------------------------------------------------------
(* The adapter next to the highest level: new("\t", Vec::new()) followed   *)
(* by u16::MAX - 1 calls of inc().                                         *)

AtLevel(self, n) ==
    [self EXCEPT !.indent_level = n, !.required_indent = Repeat(self.indent, n)]

InitSat ==
    /\ w = AtLevel(New(<<TAB>>, VecNew), U16Max - 1)
    /\ overflow_checks \in BOOLEAN
    /\ panicked = FALSE
    /\ last = Call("inc", <<>>, Ok(0), <<>>,
                   Fields(AtLevel(New(<<TAB>>, VecNew), U16Max - 2)))
    /\ pending = <<>>
    /\ compliant = TRUE
    /\ input = <<>>
    /\ expectL = <<>>
    /\ expectM = <<>>
    /\ lineStartAtNew = TRUE
    /\ cleanReset = FALSE
    /\ twin = New(w.indent, OneByteAtATime(VecNew))

NextSat ==
    \/ Inc
    \/ Dec
    \/ Reset
    \/ \E buf \in Bufs : Write(buf)
    \/ Flush

SpecSat == InitSat /\ [][NextSat]_vars

----------------------------------------------------------------------------
(* The level calls alone, on an adapter at level 0 and on one next to the   *)
(* highest level, for every indent unit.                                    *)

LevelStarts == {0, U16Max - 1}

InitLevels ==
    /\ \E u \in Units, n \in LevelStarts :
         /\ w = AtLevel(New(u, VecNew), n)
         /\ last = IF n = 0
                   THEN Call("new", <<>>, Ok(0), <<>>, Fields(w))
                   ELSE Call("inc", <<>>, Ok(0), <<>>,
                             Fields(AtLevel(New(u, VecNew), n - 1)))
    /\ overflow_checks \in BOOLEAN
    /\ panicked = FALSE
    /\ pending = <<>>
    /\ compliant = TRUE
    /\ input = <<>>
    /\ expectL = <<>>
    /\ expectM = <<>>
    /\ lineStartAtNew = TRUE
    /\ cleanReset = FALSE
    /\ twin = New(w.indent, OneByteAtATime(VecNew))

NextLevels ==
    \/ Inc
    \/ Dec
    \/ Reset

SpecLevels == InitLevels /\ [][NextLevels]_vars

----------------------------------------------------------------------------
(* IndentWriter::write one iteration of its `loop` at a time: `last` is     *)
(* the call in progress, with result Running until the loop breaks.         *)

Running == [t |-> "Running", n |-> 0]

\* an iteration that goes round the loop again without calling the sink
Continue(self) == {[self |-> self, res |-> Running, calls |-> <<>>]}

\* one iteration of the loop of write: the outcomes [self, res, calls], res
\* being Running when the loop goes round again
WriteIteration(self, buf) ==
    CASE self.state.tag = "MidLine" ->
           LET pos == PositionNewline(buf)
               After(s, n) == IF LineWritten(n, pos)
                              THEN [s EXCEPT !.state = NeedIndent] ELSE s
           IN CASE pos = -1 -> ForwardAndBreak(self, buf, <<>>, Unchanged)
                [] pos = 0 -> Continue([self EXCEPT !.state = NeedIndent])
                [] OTHER -> ForwardAndBreak(self, BufPrefix(buf, pos + 1), <<>>, After)
      [] self.state.tag = "NeedIndent" ->
           LET pos == PositionNonNewline(buf)
               After(s, n) == IF BlankLinesWritten(n, pos)
                              THEN [s EXCEPT !.state = FullRange(s)] ELSE s
           IN CASE pos = -1 -> ForwardAndBreak(self, buf, <<>>, Unchanged)
                [] pos = 0 -> Continue([self EXCEPT !.state = FullRange(self)])
                [] OTHER -> ForwardAndBreak(self, BufPrefix(buf, pos), <<>>, After)
      [] OTHER ->
           IF ~SliceInBounds(self)
           THEN {[self |-> self, res |-> Panic, calls |-> <<>>]}
           ELSE LET range == self.state
                    slice == Slice(self.required_indent, range.start, range.end)
                IN { LET s1 == [self EXCEPT !.writer = o.w]
                         log == <<SinkCall("write", "indent", slice, o.res)>>
                     IN CASE ~IsOk(o.res) ->
                               [self |-> Stalled(s1), res |-> o.res, calls |-> log]
                          [] IsOk(o.res)
                               /\ IndentWritten(o.res.n, range.end - range.start) ->
                               [self |-> [s1 EXCEPT !.state = MidLine],
                                res |-> Running, calls |-> log]
                          [] IsOk(o.res)
                               /\ ~IndentWritten(o.res.n, range.end - range.start)
                               /\ o.res.n = 0 ->
                               [self |-> Stalled(s1), res |-> Ok(0), calls |-> log]
                          [] OTHER ->
                               [self |-> Advance(s1, o.res.n), res |-> Running,
                                calls |-> log]
                     : o \in WriterWrite(self.writer, slice) }

InCall == last.res = Running

\* the caller calls write(buf): the loop is entered
BeginWrite(buf) ==
    /\ ~panicked
    /\ ~InCall
    /\ Len(input) + Len(buf) <= MaxInput
    /\ Len(Data(w)) < MaxOut
    /\ last' = Call("write", buf, Running, <<>>, Fields(w))
    /\ UNCHANGED <<w, twin, overflow_checks, panicked, pending, compliant, input,
                   expectL, expectM, lineStartAtNew, cleanReset>>

\* one iteration of the loop; the call returns when the loop breaks
Iterate ==
    /\ InCall
    /\ \E o \in WriteIteration(w, last.buf) :
         /\ w' = o.self
         /\ last' = [last EXCEPT !.res = o.res, !.calls = @ \o o.calls]
         /\ panicked' = (o.res = Panic)
         /\ input' = input \o Consumed(last.buf, o.res)
    /\ UNCHANGED <<twin, overflow_checks, pending, compliant, expectL, expectM,
                   lineStartAtNew, cleanReset>>

InitLoop == Init

NextLoop ==
    \/ \E buf \in Bufs : BeginWrite(buf)
    \/ Iterate
    \/ ~InCall /\ Inc
    \/ ~InCall /\ Dec
    \/ ~InCall /\ Reset

\* the loop runs on the caller's thread: while a call is in progress and
\* the sink returns, the next iteration is executed
SpecLoop == InitLoop /\ [][NextLoop]_vars /\ WF_vars(Iterate)

----------------------------------------------------------------------------
(* The same calls given to an adapter around a Vec<u8> (w) and to one      *)
(* around OneByteAtATime (twin), each buffer written with write_all.       *)

RECURSIVE WriteAll(_, _)
\* io::Write::write_all, as write! and writeln! of the tests use it: write is
\* called with the unconsumed rest until the buffer is empty
WriteAll(self, buf) ==
    IF buf = <<>>
    THEN [self |-> self, res |-> Ok(0)]
    ELSE LET o == CHOOSE x \in WriteLoop(self, buf, <<>>) : TRUE
         IN CASE ~IsOk(o.res) -> [self |-> o.self, res |-> o.res]
              [] IsOk(o.res) /\ o.res.n = 0 -> [self |-> o.self, res |-> WriteZero]
              [] OTHER -> WriteAll(o.self, SubSeq(buf, o.res.n + 1, Len(buf)))

InitTwin ==
    /\ Init
    /\ Base(w) = <<"Indent", "Vec">>

TwinInc ==
    /\ ~panicked
    /\ LevelInRange(w.indent_level)
    /\ w' = inc(w)
    /\ twin' = inc(twin)
    /\ last' = Call("inc", <<>>, Ok(0), <<>>, Fields(w))
    /\ cleanReset' = FALSE
    /\ UNCHANGED <<overflow_checks, panicked, pending, compliant, input, expectL,
                   expectM, lineStartAtNew>>

TwinDec ==
    /\ ~panicked
    /\ LET a == dec(w, overflow_checks)
           b == dec(twin, overflow_checks)
       IN /\ w' = a.self
          /\ twin' = b.self
          /\ panicked' = (a.res = Panic \/ b.res = Panic)
          /\ last' = Call("dec", <<>>, a.res, <<>>, Fields(w))
    /\ UNCHANGED <<overflow_checks, pending, compliant, input, expectL, expectM,
                   lineStartAtNew, cleanReset>>

TwinReset ==
    /\ ~panicked
    /\ w' = reset(w)
    /\ twin' = reset(twin)
    /\ last' = Call("reset", <<>>, Ok(0), <<>>, Fields(w))
    /\ cleanReset' = TRUE
    /\ UNCHANGED <<overflow_checks, panicked, pending, compliant, input, expectL,
                   expectM, lineStartAtNew>>

TwinWriteAll(buf) ==
    /\ ~panicked
    /\ Len(input) + Len(buf) <= MaxInput
    /\ Len(Data(w)) < MaxOut
    /\ LET a == WriteAll(w, buf)
           b == WriteAll(twin, buf)
       IN /\ w' = a.self
          /\ twin' = b.self
          /\ panicked' = (a.res = Panic \/ b.res = Panic)
          /\ last' = Call("write_all", buf, a.res, <<>>, Fields(w))
    /\ input' = input \o buf
    /\ expectL' = expectL \o Indented(AtLineStart(input), buf, PrefixByLevel(w))
    /\ expectM' = expectM \o Indented(AtLineStart(input), buf, PrefixByBuffer(w))
    /\ UNCHANGED <<overflow_checks, pending, compliant, lineStartAtNew, cleanReset>>

NextTwin ==
    \/ TwinInc
    \/ TwinDec
    \/ TwinReset
    \/ \E buf \in Bufs : TwinWriteAll(buf)

SpecTwin == InitTwin /\ [][NextTwin]_vars

----------------------------------------------------------------------------
(* Properties.                                                             *)

RECURSIVE Accepted(_, _)
\* the bytes of source src the wrapped writer accepted during a call
Accepted(calls, src) ==
    IF calls = <<>> THEN <<>>
    ELSE LET c == Head(calls)
         IN (IF c.op = "write" /\ c.src = src /\ IsOk(c.ret)
             THEN SubSeq(c.arg, 1, c.ret.n) ELSE <<>>)
            \o Accepted(Tail(calls), src)

Single == Depth(w) = 1
Elems(s) == {s[i] : i \in 1..Len(s)}

\* C1: with a sink that accepts everything and a caller that re-submits
\* what is left of each buffer, the sink holds the caller's bytes with
\* indent * level put before the first byte of every non-empty line, the
\* level being the one in force when that byte was written (looked at
\* whenever no buffer is part-written).
C1_OutputIsInputIndentedByLevel ==
    (compliant /\ pending = <<>> /\ Base(w) = <<"Indent", "Vec">>) =>
        Data(w) = expectL

\* C2: no indent byte in the sink is directly followed by a newline of the
\* caller, whatever the calls and the sink do (indent units made of bytes the
\* caller never writes, so that an indent byte is recognisable).
C2_NoIndentBeforeNewline ==
    (Single /\ Elems(w.indent) \subseteq IndentBytes) =>
        \A i \in 1..(Len(Data(w)) - 1) :
            Data(w)[i] \in IndentBytes => Data(w)[i + 1] # NL

\* C6: dec() at level 0 completes normally and leaves level 0 and an empty
\* required_indent, for a non-empty indent unit.
C6_DecAtZeroIsNoOp ==
    (last.op = "dec" /\ last.pre.indent_level = 0 /\ w.indent # <<>>) =>
        /\ last.res = Ok(0)
        /\ w.indent_level = 0
        /\ w.required_indent = <<>>

\* C7: required_indent is the indent unit repeated indent_level times.
C7_BufferIsUnitTimesLevel ==
    w.required_indent = Repeat(w.indent, w.indent_level)

\* C8: reset() leaves level 0 and an empty required_indent, and a write after
\* it (no inc() in between) completes and puts no indent byte in the sink.
C8_ResetThenNoIndent ==
    /\ last.op = "reset" => (w.indent_level = 0 /\ w.required_indent = <<>>)
    /\ (cleanReset /\ last.op = "write") =>
          /\ last.res # Panic
          /\ Accepted(last.calls, "indent") = <<>>

\* C3: the one-byte-at-a-time sink ends up with the bytes the Vec<u8> ends
\* up with, for the same buffers and the same inc/dec/reset between them.
C3_OneByteSinkSameOutput == Data(twin) = Data(w)

\* C4: a write that returns Ok(n) has n <= len(buf), and the bytes of buf
\* the sink accepted during the call are buf[..n]: indent bytes never count.
C4_CountIsCallerBytesTaken ==
    (last.op = "write" /\ IsOk(last.res)) =>
        /\ last.res.n <= Len(last.buf)
        /\ Accepted(last.calls, "buf") = SubSeq(last.buf, 1, last.res.n)

\* the sink calls of a flush that write
FlushWrites == {i \in 1..Len(last.calls) : last.calls[i].op = "write"}
\* the sink calls of a flush that flush
FlushFlushes == {i \in 1..Len(last.calls) : last.calls[i].op = "flush"}

\* C9: flush() flushes the sink only as its last step and only after the
\* whole pending range of the indent was accepted; a sink that accepts
\* nothing of a non-empty rest makes it fail with WriteZero without flushing
\* the sink; outside WritingIndent it writes nothing and flushes the sink;
\* after Ok the state is not WritingIndent.
C9_FlushDrainsIndentFirst ==
    last.op = "flush" =>
        LET pre == last.pre
            calls == last.calls
            mid == pre.state.tag = "WritingIndent"
        IN /\ ~mid => (Len(calls) = 1 /\ FlushFlushes = {1})
           /\ \A i \in FlushWrites : calls[i].src = "indent"
           /\ \A i \in FlushFlushes :
                 /\ i = Len(calls)
                 /\ mid => Accepted(calls, "indent") =
                             Slice(pre.required_indent, pre.state.start, pre.state.end)
           /\ (\E i \in FlushWrites : calls[i].arg # <<>> /\ calls[i].ret = Ok(0)) =>
                 (last.res = WriteZero /\ FlushFlushes = {})
           /\ IsOk(last.res) => (w.state.tag # "WritingIndent" /\ FlushFlushes # {})

\* the part of the indent of the line about to start that is in the sink
IndentProgress ==
    CASE w.state.tag = "WritingIndent" ->
           SubSeq(w.required_indent, 1, w.state.start)
      [] w.state.tag = "MidLine" /\ AtLineStart(input) -> w.required_indent
      [] OTHER -> <<>>

\* C10: whatever the sink refuses, as long as the caller re-submits the same
\* buffer and leaves the level alone meanwhile, the sink holds every consumed
\* line behind exactly one copy of required_indent, followed by the part of
\* the next line's indent written so far: nothing twice, nothing skipped.
\* And a sink write that fails or accepts nothing of a non-empty slice is the
\* last thing its call does: the call returns that outcome, and if the slice
\* was indent, the range left in WritingIndent is the slice that was refused.
C10_StallKeepsIndentExact ==
    /\ (compliant /\ Single) => Data(w) = expectM \o IndentProgress
    /\ (Single /\ last.op \in {"write", "flush"}) =>
          \A i \in 1..Len(last.calls) :
             LET c == last.calls[i]
                 zero == c.ret = Ok(0) /\ c.arg # <<>>
             IN (c.op = "write" /\ (c.ret = Err \/ zero)) =>
                   /\ i = Len(last.calls)
                   /\ last.res = (IF c.ret = Err THEN Err
                                  ELSE IF last.op = "flush" THEN WriteZero ELSE Ok(0))
                   /\ c.src = "indent" =>
                         /\ w.state.tag = "WritingIndent"
                         /\ Slice(w.required_indent, w.state.start, w.state.end) = c.arg

\* C5 as stated: every non-empty line written through the second adapter is
\* behind the first adapter's required_indent and then the second's.
C5_NestedIndentsAlways ==
    (Depth(w) = 2 /\ pending = <<>>) => Data(w) = expectM

\* C5 amended: so it is when the first adapter was at a line start when the
\* second was built around it and the second's indent unit has no newline.
C5_NestedIndents ==
    (Depth(w) = 2 /\ pending = <<>> /\ lineStartAtNew /\ NL \notin Elems(w.indent)) =>
        Data(w) = expectM

\* the sink calls of the last call that got 0 for a non-empty slice
ZeroCalls ==
    {i \in 1..Len(last.calls) :
        /\ last.calls[i].op = "write"
        /\ last.calls[i].arg # <<>>
        /\ last.calls[i].ret = Ok(0)}

\* C11: a write of a non-empty buffer returns Ok(0) exactly when the sink
\* answered 0 to a non-empty slice during the call; that sink call is the
\* last one of the call, and no byte of the buffer was accepted in the call.
C11_ZeroIffSinkZero ==
    (last.op = "write" /\ last.buf # <<>> /\ last.res # Panic) =>
        /\ last.res = Ok(0) <=> ZeroCalls # {}
        /\ \A i \in ZeroCalls : i = Len(last.calls)
        /\ last.res = Ok(0) => Accepted(last.calls, "buf") = <<>>


\* C12: a write that starts in MidLine with the first newline of buf at
\* offset k > 0 offers buf[..k+1] to the sink, once, and returns the sink's
\* answer; it ends in NeedIndent exactly when the sink accepted k+1 bytes,
\* and in MidLine when the sink accepted k bytes or fewer.
C12_NeedIndentIffNewlineAccepted ==
    LET k == PositionNewline(last.buf)
    IN (Single /\ last.op = "write" /\ last.pre.state = MidLine /\ k > 0) =>
          /\ Len(last.calls) = 1
          /\ last.calls[1].op = "write"
          /\ last.calls[1].arg = BufPrefix(last.buf, k + 1)
          /\ last.res = last.calls[1].ret
          /\ IsOk(last.res) =>
                /\ w.state = NeedIndent <=> last.res.n = k + 1
                /\ last.res.n <= k => w.state = MidLine
          /\ ~IsOk(last.res) => w.state = MidLine

\* C13: an indent byte in the sink never directly follows a byte of the
\* caller other than a newline: it is first in the output, or behind a newline
\* or another indent byte (indent units made of bytes the caller never
\* writes, so that an indent byte is recognisable; any caller, any sink).
C13_IndentOnlyAtLineStart ==
    (Single /\ Elems(w.indent) \subseteq IndentBytes) =>
        \A i \in 2..Len(Data(w)) :
            Data(w)[i] \in IndentBytes => Data(w)[i - 1] \in IndentBytes \cup {NL}

\* C14: in WritingIndent(range), range.start <= range.end and range.end =
\* len(required_indent): the slice is in bounds and is the tail of the
\* indent that is still to be written.
C14_PendingRangeInBounds ==
    w.state.tag = "WritingIndent" =>
        /\ SliceInBounds(w)
        /\ w.state.end = Len(w.required_indent)

\* the sink calls of the last call that offered indent and got 0 for it
ZeroIndentCalls == {i \in ZeroCalls : last.calls[i].src = "indent"}

\* C15 as stated: the write that forwards the leading blank lines of buf goes
\* on, in the same call, to offer the indent of the line behind them (which
\* the sink may then refuse, the call reporting 0 after having made progress).
C15_IndentOfferedAfterBlankLines ==
    LET k == PositionNonNewline(last.buf)
    IN (/\ Single
        /\ last.op = "write"
        /\ last.pre.state = NeedIndent
        /\ last.pre.required_indent # <<>>
        /\ k > 0
        /\ Accepted(last.calls, "buf") = BufPrefix(last.buf, k)) =>
           \E i \in 1..Len(last.calls) : last.calls[i].src = "indent"

\* C15 amended: a sink that accepts nothing of the pending indent makes write
\* return Ok(0) at once, and the call has offered no byte of buf to the sink;
\* a write that forwards leading blank lines makes that one sink call and
\* returns its answer, leaving the indent to the next call.
C15_ZeroIndentBeforeAnyProgress ==
    (Single /\ last.op = "write") =>
        /\ ZeroIndentCalls # {} =>
              /\ last.res = Ok(0)
              /\ \A i \in ZeroIndentCalls : i = Len(last.calls)
              /\ \A i \in 1..Len(last.calls) : last.calls[i].src = "indent"
        /\ (last.pre.state = NeedIndent /\ PositionNonNewline(last.buf) > 0) =>
              /\ Len(last.calls) = 1
              /\ last.calls[1].arg = BufPrefix(last.buf, PositionNonNewline(last.buf))
              /\ last.res = last.calls[1].ret

\* C16: inc(), dec() and reset() call the sink for nothing and leave the
\* state variable, the indent unit and the wrapped writer (its contents
\* included) as they were: only indent_level and required_indent may differ.
C16_LevelCallsFrame ==
    [][(Inc \/ Dec \/ Reset) =>
          /\ last'.calls = <<>>
          /\ w'.state = w.state
          /\ w'.indent = w.indent
          /\ w'.writer = w.writer
          /\ Data(w') = Data(w)
          /\ w' = [w EXCEPT !.indent_level = w'.indent_level,
                            !.required_indent = w'.required_indent]]_vars

\* C17: a dec() that directly follows an inc() completes and leaves
\* required_indent with the bytes it had before the inc(), having removed
\* exactly one unit's length of bytes, at level 0 and at the highest level
\* as anywhere else.
C17_IncThenDecRestoresBuffer ==
    [][(Dec /\ last.op = "inc") =>
          /\ last'.res = Ok(0)
          /\ w'.required_indent = last.pre.required_indent
          /\ Len(w.required_indent) - Len(w'.required_indent) = Len(w.indent)]_vars

\* what is left for the loop of write to do before it must break: the
\* switches it can still make, and the bytes of indent still to be written
LoopMeasure(self, buf) ==
    CASE self.state.tag = "MidLine" ->
           IF PositionNewline(buf) = 0 THEN 1 ELSE 0
      [] self.state.tag = "NeedIndent" ->
           IF PositionNonNewline(buf) = 0 THEN Len(self.required_indent) + 3 ELSE 0
      [] OTHER -> (self.state.end - self.state.start) + 2

\* C18: every iteration of the loop of write either ends the call or leaves
\* strictly less to do (MidLine -> NeedIndent and NeedIndent -> WritingIndent
\* happen at most once each, a WritingIndent iteration shrinks the range or
\* leaves for MidLine), so every call of write returns.
C18_WriteTerminates ==
    /\ [][(Iterate /\ last'.res = Running) =>
             /\ LoopMeasure(w', last.buf) < LoopMeasure(w, last.buf)
             /\ LoopMeasure(w', last.buf) >= 0]_vars
    /\ InCall ~> ~InCall

----------------------------------------------------------------------------
(* States in which the properties above have something to say.             *)

Count(s, b) == Cardinality({i \in 1..Len(s) : s[i] = b})

\* two lines went through both sinks behind a two-byte indent
C3_Witness ==
    /\ twin.indent = <<TAB, SP>>
    /\ twin.indent_level >= 1
    /\ Count(Data(twin), TAB) >= 2
    /\ Count(input, NL) >= 1

\* a short write that also wrote an indent
C4_Witness ==
    /\ last.op = "write"
    /\ IsOk(last.res)
    /\ 0 < last.res.n
    /\ last.res.n < Len(last.buf)
    /\ Accepted(last.calls, "indent") # <<>>

\* a line and a blank line went through two adapters, both with an indent
C5_Witness ==
    /\ Depth(w) = 2
    /\ pending = <<>>
    /\ lineStartAtNew
    /\ NL \notin Elems(w.indent)
    /\ w.required_indent # <<>>
    /\ w.writer.required_indent # <<>>
    /\ input = <<NL, LetterA, NL>>

\* a flush that found a pending indent, had to offer it twice and flushed
C9_Witness ==
    /\ last.op = "flush"
    /\ last.pre.state.tag = "WritingIndent"
    /\ last.res = Ok(0)
    /\ Cardinality(FlushWrites) >= 2

\* a write that found an indent stalled half-way, finished it and went on
C10_Witness ==
    /\ compliant
    /\ Single
    /\ last.op = "write"
    /\ last.pre.state.tag = "WritingIndent"
    /\ last.pre.state.start > 0
    /\ IsOk(last.res)
    /\ last.res.n > 0

\* a write that got part of the indent into the sink and then met a sink
\* that accepts nothing
C11_Witness ==
    /\ last.op = "write"
    /\ last.buf # <<>>
    /\ last.res = Ok(0)
    /\ Len(last.calls) >= 2
    /\ Accepted(last.calls, "indent") # <<>>

\* blank lines went to the sink in an earlier call, which left the indent
\* pending; this call offered the indent and the sink accepted nothing
C15_Witness ==
    /\ last.op = "write"
    /\ last.pre.state.tag = "WritingIndent"
    /\ last.pre.state.start = 0
    /\ Count(Data(w), NL) >= 1
    /\ ZeroIndentCalls # {}
    /\ last.res = Ok(0)

\* dec() and reset() called on an adapter that holds a pending indent and
\* whose sink holds bytes
C16_Witness ==
    /\ last.op \in {"dec", "reset"}
    /\ last.res = Ok(0)
    /\ last.pre.required_indent # w.required_indent
    /\ w.state.tag = "WritingIndent"
    /\ Data(w) # <<>>

\* inc() at the highest level, which only lengthens the buffer, then dec(),
\* with a two-byte unit
C17_Witness ==
    /\ last.op = "dec"
    /\ last.res = Ok(0)
    /\ w.indent = <<TAB, SP>>
    /\ last.pre.indent_level = U16Max
    /\ Len(last.pre.required_indent) = (U16Max + 1) * Len(w.indent)
    /\ Len(w.required_indent) = U16Max * Len(w.indent)

\* a call that found a two-byte indent pending and a buffer that starts with
\* a newline: it wrote the indent in two pieces, went through MidLine and
\* NeedIndent, forwarded the newline and returned
C18_Witness ==
    /\ last.op = "write"
    /\ last.pre.state.tag = "WritingIndent"
    /\ last.buf # <<>>
    /\ last.buf[1] = NL
    /\ Len(last.calls) >= 3
    /\ IsOk(last.res)
    /\ last.res.n > 0

====
